---- MODULE Spec2Model ----
(***************************************************************************)
(* Weather Forecast Tool (project_code.py): the validators, the geocoding  *)
(* and forecast clients, the forecast merger, the icon selector and the    *)
(* submit handler show_forecast.                                           *)
(*                                                                         *)
(* Representation.                                                         *)
(*   - Python None is the empty tuple <<>>; a value v that may be None is  *)
(*     carried as <<v>> (Some(v)).                                         *)
(*   - A call that may raise yields a record [raised, value]: raised is    *)
(*     the exception class name ("None" when the call returned).           *)
(*   - The text of the date entry is a record [kind, y, m, d]: kind "ymd"  *)
(*     is the text "y-m-d" with numeric fields (which need not form a      *)
(*     calendar date), kind "junk" any other non-empty text, kind "blank"  *)
(*     the empty text.  city, country and date hold the texts after        *)
(*     .strip() (lines 160-162).                                           *)
(*   - Temperatures and precipitation amounts on the wire are drawn from   *)
(*     EVEN integers, so that (value1 + value2) / 2 is an integer and the  *)
(*     mean is computed exactly.                                           *)
(***************************************************************************)
EXTENDS Integers, Sequences, FiniteSets, TLC

VARIABLES
    pc,              \* position of the handler, or of the function called on its own
    today,           \* datetime.today().date()
    city,            \* city_entry.get().strip()
    country,         \* country_entry.get().strip()
    date,            \* date_entry.get().strip()
    date_error,      \* result of validate_date
    geo_response,    \* what the geocoding request produced
    lat, lon,        \* result of get_coordinates
    forecast1,       \* result of get_weather_open_meteo
    forecast2,       \* result of get_weather_openweathermap
    forecast,        \* result of calculate_forecast
    forecast_label,  \* the text panel
    icon_label,      \* the icon shown
    notice,          \* title of the messagebox shown by this submission
    raised,          \* exception that ended this submission ("None" if none)
    calls,           \* the functions show_forecast has called, in order
    response_a,      \* response given to source A, called on its own
    response_b,      \* response given to source B, called on its own
    result_a,        \* outcome of get_weather_open_meteo, called on its own
    result_b,        \* outcome of get_weather_openweathermap, called on its own
    precipitation,   \* argument of get_weather_icon, called on its own
    icon_path        \* outcome of get_weather_icon, called on its own

vars == <<pc, today, city, country, date, date_error, geo_response, lat, lon,
          forecast1, forecast2, forecast, forecast_label, icon_label, notice,
          raised, calls, response_a, response_b, result_a, result_b,
          precipitation, icon_path>>

(***************************************************************************)
(* Bounds of the model.                                                    *)
(***************************************************************************)
YearSpan == 2          \* date texts cover the years 2027 .. 2027 + YearSpan
MaxMonthField == 13    \* month field of a date text: 0 .. MaxMonthField
MaxDayField == 32      \* day field of a date text: 0 .. MaxDayField
MaxTemp == 1           \* wire temperatures: 0, 2, .. 2 * MaxTemp
MaxRain == 1           \* wire precipitation: 0, 2, .. 2 * MaxRain
MaxMergeVal == 2       \* calculate_forecast on its own: field values -2, 0, .. 2 * MaxMergeVal
MaxPrecip == 30        \* get_weather_icon on its own: precipitation -MaxPrecip .. MaxPrecip

(***************************************************************************)
(* None and results of calls.                                              *)
(***************************************************************************)
None == <<>>
Some(v) == <<v>>
Returned(v) == [raised |-> "None", value |-> v]
Raised(e) == [raised |-> e, value |-> None]

(***************************************************************************)
(* datetime.date: the calendar, comparison, replace(year=...).             *)
(***************************************************************************)
IsLeap(y) == (y % 4 = 0 /\ y % 100 # 0) \/ y % 400 = 0

DaysInMonth(y, m) ==
    IF m = 2 THEN (IF IsLeap(y) THEN 29 ELSE 28)
    ELSE IF m \in {4, 6, 9, 11} THEN 30 ELSE 31

IsValidDate(y, m, d) ==
    /\ y >= 1 /\ y <= 9999
    /\ m >= 1 /\ m <= 12
    /\ d >= 1 /\ d <= DaysInMonth(y, m)

Date(y, m, d) == [year |-> y, month |-> m, day |-> d]

\* a < b on datetime.date values
DateLess(a, b) ==
    \/ a.year < b.year
    \/ a.year = b.year /\ a.month < b.month
    \/ a.year = b.year /\ a.month = b.month /\ a.day < b.day

\* d.replace(year=y): ValueError when (y, d.month, d.day) is no calendar date
replace_year(d, y) ==
    IF IsValidDate(y, d.month, d.day)
    THEN Returned(Some(Date(y, d.month, d.day)))
    ELSE Raised("ValueError")

(***************************************************************************)
(* Texts of the date entry.                                                *)
(***************************************************************************)
DateText(y, m, d) == [kind |-> "ymd", y |-> y, m |-> m, d |-> d]
BlankText == [kind |-> "blank", y |-> 0, m |-> 0, d |-> 0]
JunkText == [kind |-> "junk", y |-> 0, m |-> 0, d |-> 0]

\* datetime.strptime(text, "%Y-%m-%d").date()
strptime(text) ==
    IF text.kind = "ymd" /\ IsValidDate(text.y, text.m, text.d)
    THEN Returned(Some(Date(text.y, text.m, text.d)))
    ELSE Raised("ValueError")

(***************************************************************************)
(* validate_date: the message returned, by category ("None" for success).  *)
(***************************************************************************)
validate_date(text, now) ==
    LET parsed == strptime(text) IN
    IF parsed.raised = "ValueError" THEN "InvalidFormat"
    ELSE
        LET forecast_date == parsed.value[1]
            replaced == replace_year(now, now.year + 1)
        IN  IF replaced.raised = "ValueError" THEN "InvalidFormat"
            ELSE IF DateLess(forecast_date, now) THEN "PastDate"
            ELSE IF DateLess(replaced.value[1], forecast_date) THEN "TooFarFuture"
            ELSE "None"

(***************************************************************************)
(* validate_phone_country_code.                                            *)
(***************************************************************************)
VALID_PHONE_COUNTRY_CODES ==
    ("1" :> "United States/Canada") @@ ("91" :> "India") @@
    ("44" :> "United Kingdom") @@ ("86" :> "China") @@ ("7" :> "Russia")

validate_phone_country_code(code) ==
    IF code \notin DOMAIN VALID_PHONE_COUNTRY_CODES THEN "InvalidCountryCode"
    ELSE "None"

(***************************************************************************)
(* Forecasts.                                                              *)
(***************************************************************************)
Forecast(mx, mn, pr) == [max_temp |-> mx, min_temp |-> mn, precipitation |-> pr]
ZeroForecast == Forecast(Some(0), Some(0), Some(0))

(***************************************************************************)
(* get_coordinates.  A geocoding response is [kind, results, latitude,     *)
(* longitude]: kind "RequestException" (requests.get raised), "NotJSON"    *)
(* (the body is no JSON, response.json() raises) or "JSON"; results is     *)
(* "absent", "empty" or "list", and latitude / longitude are those of the  *)
(* first result (None when the key is missing).  There is no try block:    *)
(* both exceptions leave the function.                                     *)
(***************************************************************************)
GeoResponse(k, r, la, lo) ==
    [kind |-> k, results |-> r, latitude |-> la, longitude |-> lo]

Coordinates(la, lo) == [lat |-> la, lon |-> lo]

get_coordinates(resp) ==
    IF resp.kind = "RequestException" THEN Raised("RequestException")
    ELSE IF resp.kind = "NotJSON" THEN Raised("JSONDecodeError")
    ELSE IF resp.results = "list"
         THEN Returned(Coordinates(resp.latitude, resp.longitude))
         ELSE Returned(Coordinates(None, None))

(***************************************************************************)
(* get_weather_open_meteo.  A response is [kind, daily]; daily is None     *)
(* (no "daily" key) or Some of a record of the three requested arrays,     *)
(* each [k, v]: k "missing" (no such key), "empty" ([]), "null" ([null])   *)
(* or "num" ([v]).  A daily object with no key at all is the empty dict.   *)
(* A body that is no JSON makes response.json() raise; whether that        *)
(* exception is a requests.RequestException depends on the installed       *)
(* requests version, so both outcomes are possible.  The operator yields   *)
(* the SET of possible outcomes.                                           *)
(***************************************************************************)
Field(k, v) == [k |-> k, v |-> v]

Daily(mx, mn, pr) ==
    [temperature_2m_max |-> mx, temperature_2m_min |-> mn, precipitation_sum |-> pr]

ResponseA(k, d) == [kind |-> k, daily |-> d]

\* daily_data[key][0]
FirstItem(f) ==
    IF f.k = "missing" THEN Raised("KeyError")
    ELSE IF f.k = "empty" THEN Raised("IndexError")
    ELSE IF f.k = "null" THEN Returned(None)
    ELSE Returned(Some(f.v))

\* truth value of the daily dict: false when absent or empty
DailyTruthy(d) ==
    /\ d # None
    /\ \/ d[1].temperature_2m_max.k # "missing"
       \/ d[1].temperature_2m_min.k # "missing"
       \/ d[1].precipitation_sum.k # "missing"

get_weather_open_meteo(resp) ==
    IF resp.kind = "RequestException" THEN {Returned(None)}
    ELSE IF resp.kind = "NotJSON" THEN {Returned(None), Raised("JSONDecodeError")}
    ELSE IF ~DailyTruthy(resp.daily) THEN {Returned(None)}
    ELSE
        LET mx == FirstItem(resp.daily[1].temperature_2m_max)
            mn == FirstItem(resp.daily[1].temperature_2m_min)
            pr == FirstItem(resp.daily[1].precipitation_sum)
        IN  IF mx.raised # "None" THEN {Raised(mx.raised)}
            ELSE IF mn.raised # "None" THEN {Raised(mn.raised)}
            ELSE IF pr.raised # "None" THEN {Raised(pr.raised)}
            ELSE {Returned(Some(Forecast(mx.value, mn.value, pr.value)))}

(***************************************************************************)
(* get_weather_openweathermap.  A response is [kind, current]; current is  *)
(* [has, temp, rain]: has is whether the "current" key exists, temp is     *)
(* None when "temp" is missing, rain is [k, v] with k "absent" (no "rain"  *)
(* key), "no1h" (rain without "1h"), "null" ("1h": null) or "num".         *)
(***************************************************************************)
Current(h, t, r) == [has |-> h, temp |-> t, rain |-> r]

ResponseB(k, c) == [kind |-> k, current |-> c]

\* current_data.get("rain", {}).get("1h", 0)
RainAmount(r) ==
    IF r.k \in {"absent", "no1h"} THEN Some(0)
    ELSE IF r.k = "null" THEN None
    ELSE Some(r.v)

get_weather_openweathermap(resp) ==
    IF resp.kind = "RequestException" THEN {Returned(None)}
    ELSE IF resp.kind = "NotJSON" THEN {Returned(None), Raised("JSONDecodeError")}
    ELSE
        LET current_data ==
                IF resp.current.has THEN resp.current
                ELSE Current(FALSE, None, Field("absent", 0))
        IN  {Returned(Some(Forecast(current_data.temp, current_data.temp,
                                    RainAmount(current_data.rain))))}

(***************************************************************************)
(* calculate_forecast.                                                     *)
(***************************************************************************)
\* variant: a missing value counts as zero in the average
safe_average_none_as_zero(value1, value2) ==
    LET a == IF value1 = None THEN 0 ELSE value1[1]
        b == IF value2 = None THEN 0 ELSE value2[1]
    IN  Some((a + b) \div 2)

\* variant: the sum is not halved
safe_average_sum(value1, value2) ==
    IF value1 = None /\ value2 = None THEN Some(0)
    ELSE IF value1 = None THEN value2
    ELSE IF value2 = None THEN value1
    ELSE Some(value1[1] + value2[1])

safe_average(value1, value2) ==
    IF value1 = None /\ value2 = None THEN Some(0)
    ELSE IF value1 = None THEN value2
    ELSE IF value2 = None THEN value1
    ELSE Some((value1[1] + value2[1]) \div 2)

\* variant: a missing forecast is averaged as a forecast of missing fields
calculate_forecast_always_average(f1, f2) ==
    LET g1 == IF f1 = None THEN Forecast(None, None, None) ELSE f1[1]
        g2 == IF f2 = None THEN Forecast(None, None, None) ELSE f2[1]
    IN  Forecast(safe_average(g1.max_temp, g2.max_temp),
                 safe_average(g1.min_temp, g2.min_temp),
                 safe_average(g1.precipitation, g2.precipitation))

\* forecast1 and forecast2 are None or Some(record); a record of three keys
\* is a non-empty dict, hence true in "forecastN or {...}".
calculate_forecast(f1, f2) ==
    IF f1 = None THEN (IF f2 # None THEN f2[1] ELSE ZeroForecast)
    ELSE IF f2 = None THEN f1[1]
    ELSE Forecast(safe_average(f1[1].max_temp, f2[1].max_temp),
                  safe_average(f1[1].min_temp, f2[1].min_temp),
                  safe_average(f1[1].precipitation, f2[1].precipitation))

(***************************************************************************)
(* get_weather_icon: the icon file chosen.  With precipitation None the    *)
(* test "== 0" is false and "0 < precipitation" raises TypeError.          *)
(***************************************************************************)
\* variant: the upper thresholds are exclusive
get_weather_icon_exclusive(p) ==
    IF p = None THEN Raised("TypeError")
    ELSE IF p[1] = 0 THEN Returned("sun.png")
    ELSE IF 0 < p[1] /\ p[1] < 2 THEN Returned("cloudy.png")
    ELSE IF 2 <= p[1] /\ p[1] < 10 THEN Returned("rain.png")
    ELSE Returned("snow.png")

get_weather_icon(p) ==
    IF p = None THEN Raised("TypeError")
    ELSE IF p[1] = 0 THEN Returned("sun.png")
    ELSE IF 0 < p[1] /\ p[1] <= 2 THEN Returned("cloudy.png")
    ELSE IF 2 < p[1] /\ p[1] <= 10 THEN Returned("rain.png")
    ELSE Returned("snow.png")

(***************************************************************************)
(* What the environment can supply: entry texts, today's date, responses.  *)
(***************************************************************************)
Evens(n) == {2 * k : k \in 0..n}
TempVals == Evens(MaxTemp)
RainVals == Evens(MaxRain)

Cities == {"", "Pune"}
CountryCodes == {"", "91", "999"}
SubmitDates ==
    {BlankText, JunkText, DateText(2028, 2, 27), DateText(2028, 2, 29),
     DateText(2029, 3, 1)}
SubmitTodays == {Date(2028, 2, 28), Date(2028, 2, 29)}

NoGeoResponse == GeoResponse("none", "absent", None, None)
GeoResponses ==
    {GeoResponse("RequestException", "absent", None, None),
     GeoResponse("NotJSON", "absent", None, None),
     GeoResponse("JSON", "absent", None, None),
     GeoResponse("JSON", "empty", None, None)}
    \cup {GeoResponse("JSON", "list", la, lo) :
            la \in {None, Some(13)}, lo \in {None, Some(78)}}

Fields(vals) ==
    {Field("missing", 0), Field("empty", 0), Field("null", 0)}
    \cup {Field("num", v) : v \in vals}

NoResponseA == ResponseA("none", None)
ResponsesA ==
    {ResponseA("RequestException", None), ResponseA("NotJSON", None),
     ResponseA("JSON", None)}
    \cup {ResponseA("JSON", Some(Daily(mx, mn, pr))) :
            mx \in Fields(TempVals), mn \in Fields(TempVals), pr \in Fields(RainVals)}

Rains(vals) ==
    {Field("absent", 0), Field("no1h", 0), Field("null", 0)}
    \cup {Field("num", v) : v \in vals}

NoCurrent == Current(FALSE, None, Field("absent", 0))
NoResponseB == ResponseB("none", NoCurrent)
ResponsesB ==
    {ResponseB("RequestException", NoCurrent), ResponseB("NotJSON", NoCurrent),
     ResponseB("JSON", NoCurrent)}
    \cup {ResponseB("JSON", Current(TRUE, t, r)) :
            t \in {None} \cup {Some(v) : v \in TempVals}, r \in Rains(RainVals)}

(***************************************************************************)
(* show_forecast.                                                          *)
(***************************************************************************)
Label(k, c, d, f) == [kind |-> k, city |-> c, date |-> d, shown |-> f]
EmptyLabel == Label("empty", "", BlankText, None)
NoForecastLabel == Label("none", "", BlankText, None)
ForecastLabel(c, d, f) == Label("forecast", c, d, Some(f))
NoIcon == ""

\* variant: the date error does not end the handler
show_forecast_checks_ignore_date(c, k, d, now) ==
    IF c = "" \/ k = "" \/ d.kind = "blank"
    THEN [notice |-> "Input Error", calls |-> <<>>]
    ELSE IF validate_phone_country_code(k) # "None"
    THEN [notice |-> "Country Code Error",
          calls |-> <<"validate_date", "validate_phone_country_code">>]
    ELSE [notice |-> "None",
          calls |-> <<"validate_date", "validate_phone_country_code">>]

\* lines 164-176: the notice shown ("None" when every check passed) and the
\* validators called
show_forecast_checks(c, k, d, now) ==
    IF c = "" \/ k = "" \/ d.kind = "blank"
    THEN [notice |-> "Input Error", calls |-> <<>>]
    ELSE IF validate_date(d, now) # "None"
    THEN [notice |-> "Date Error", calls |-> <<"validate_date">>]
    ELSE IF validate_phone_country_code(k) # "None"
    THEN [notice |-> "Country Code Error",
          calls |-> <<"validate_date", "validate_phone_country_code">>]
    ELSE [notice |-> "None",
          calls |-> <<"validate_date", "validate_phone_country_code">>]

\* x in (None, 0)
NoneOrZero(x) == x = None \/ x = Some(0)

\* lines 188-207: the label, the icon and the exception after presenting the
\* merged forecast f.  f is a dict of three keys, so "not forecast" is false.
\* The label text is built before forecast_label.config is called: a None
\* temperature raises TypeError in "* 9 / 5" and leaves the label alone.
show_forecast_present(f, c, d, old_label, old_icon) ==
    IF NoneOrZero(f.max_temp) /\ NoneOrZero(f.min_temp) /\ NoneOrZero(f.precipitation)
    THEN [label |-> NoForecastLabel, icon |-> NoIcon, raised |-> "None"]
    ELSE IF f.max_temp = None \/ f.min_temp = None
    THEN [label |-> old_label, icon |-> old_icon, raised |-> "TypeError"]
    ELSE
        LET weather_icon == get_weather_icon(f.precipitation) IN
        IF weather_icon.raised # "None"
        THEN [label |-> ForecastLabel(c, d, f), icon |-> old_icon,
              raised |-> weather_icon.raised]
        ELSE [label |-> ForecastLabel(c, d, f), icon |-> weather_icon.value,
              raised |-> "None"]

ClientIdle ==
    /\ response_a = NoResponseA /\ response_b = NoResponseB
    /\ result_a = Returned(None) /\ result_b = Returned(None)

IconIdle == precipitation = None /\ icon_path = Returned("")

HandlerIdle ==
    /\ city = "" /\ country = "" /\ date = BlankText /\ date_error = "None"
    /\ geo_response = NoGeoResponse /\ lat = None /\ lon = None
    /\ forecast1 = None /\ forecast2 = None /\ forecast = None
    /\ forecast_label = EmptyLabel /\ icon_label = NoIcon
    /\ notice = "None" /\ raised = "None" /\ calls = <<>>

Init ==
    /\ pc = "idle"
    /\ today \in SubmitTodays
    /\ HandlerIdle /\ ClientIdle /\ IconIdle

\* the button is pressed: lines 160-176
Submit ==
    /\ pc = "idle"
    /\ \E c \in Cities, k \in CountryCodes, d \in SubmitDates :
        LET checks == show_forecast_checks(c, k, d, today) IN
        /\ city' = c /\ country' = k /\ date' = d
        /\ date_error' = IF Len(checks.calls) > 0 THEN validate_date(d, today)
                         ELSE "None"
        /\ notice' = checks.notice
        /\ calls' = checks.calls
        /\ pc' = IF checks.notice = "None" THEN "get_coordinates" ELSE "idle"
    /\ geo_response' = NoGeoResponse /\ lat' = None /\ lon' = None
    /\ forecast1' = None /\ forecast2' = None /\ forecast' = None
    /\ raised' = "None"
    /\ UNCHANGED <<today, forecast_label, icon_label, response_a, response_b,
                   result_a, result_b, precipitation, icon_path>>

\* lines 178-181
GetCoordinates ==
    /\ pc = "get_coordinates"
    /\ \E resp \in GeoResponses :
        LET r == get_coordinates(resp) IN
        /\ geo_response' = resp
        /\ calls' = Append(calls, "get_coordinates")
        /\ IF r.raised # "None"
           THEN /\ raised' = r.raised /\ pc' = "idle"
                /\ UNCHANGED <<lat, lon, notice>>
           ELSE /\ lat' = r.value.lat /\ lon' = r.value.lon
                /\ raised' = raised
                /\ IF r.value.lat = None \/ r.value.lon = None
                   THEN notice' = "Location Error" /\ pc' = "idle"
                   ELSE notice' = notice /\ pc' = "get_weather_open_meteo"
    /\ UNCHANGED <<today, city, country, date, date_error, forecast1, forecast2,
                   forecast, forecast_label, icon_label, response_a, response_b,
                   result_a, result_b, precipitation, icon_path>>

\* line 183
GetWeatherOpenMeteo ==
    /\ pc = "get_weather_open_meteo"
    /\ \E resp \in ResponsesA : \E r \in get_weather_open_meteo(resp) :
        /\ calls' = Append(calls, "get_weather_open_meteo")
        /\ IF r.raised # "None"
           THEN raised' = r.raised /\ pc' = "idle" /\ forecast1' = forecast1
           ELSE raised' = raised /\ pc' = "get_weather_openweathermap"
                /\ forecast1' = r.value
    /\ UNCHANGED <<today, city, country, date, date_error, geo_response, lat, lon,
                   forecast2, forecast, forecast_label, icon_label, notice,
                   response_a, response_b, result_a, result_b, precipitation,
                   icon_path>>

\* line 184
GetWeatherOpenWeatherMap ==
    /\ pc = "get_weather_openweathermap"
    /\ \E resp \in ResponsesB : \E r \in get_weather_openweathermap(resp) :
        /\ calls' = Append(calls, "get_weather_openweathermap")
        /\ IF r.raised # "None"
           THEN raised' = r.raised /\ pc' = "idle" /\ forecast2' = forecast2
           ELSE raised' = raised /\ pc' = "calculate_forecast"
                /\ forecast2' = r.value
    /\ UNCHANGED <<today, city, country, date, date_error, geo_response, lat, lon,
                   forecast1, forecast, forecast_label, icon_label, notice,
                   response_a, response_b, result_a, result_b, precipitation,
                   icon_path>>

\* lines 186-207
Present ==
    /\ pc = "calculate_forecast"
    /\ LET f == calculate_forecast(forecast1, forecast2)
           shown == show_forecast_present(f, city, date, forecast_label, icon_label)
       IN  /\ forecast' = Some(f)
           /\ forecast_label' = shown.label
           /\ icon_label' = shown.icon
           /\ raised' = shown.raised
    /\ calls' = Append(calls, "calculate_forecast")
    /\ pc' = "idle"
    /\ UNCHANGED <<today, city, country, date, date_error, geo_response, lat, lon,
                   forecast1, forecast2, notice, response_a, response_b, result_a,
                   result_b, precipitation, icon_path>>

Next ==
    \/ Submit
    \/ GetCoordinates
    \/ GetWeatherOpenMeteo
    \/ GetWeatherOpenWeatherMap
    \/ Present

Spec == Init /\ [][Next]_vars

(***************************************************************************)
(* validate_date on its own: every today of 2027 and 2028 against every    *)
(* date text of the bounded fields.                                        *)
(***************************************************************************)
Todays ==
    {t \in {Date(y, m, d) : y \in {2027, 2028}, m \in 1..12, d \in 1..31} :
        IsValidDate(t.year, t.month, t.day)}

DateTexts ==
    {BlankText, JunkText}
    \cup {DateText(y, m, d) :
            y \in 2027..(2027 + YearSpan), m \in 0..MaxMonthField, d \in 0..MaxDayField}

InitDate ==
    /\ pc = "validate_date"
    /\ today \in Todays
    /\ date \in DateTexts
    /\ city = "" /\ country = "" /\ date_error = "None"
    /\ geo_response = NoGeoResponse /\ lat = None /\ lon = None
    /\ forecast1 = None /\ forecast2 = None /\ forecast = None
    /\ forecast_label = EmptyLabel /\ icon_label = NoIcon
    /\ notice = "None" /\ raised = "None" /\ calls = <<>>
    /\ ClientIdle /\ IconIdle

ValidateDate ==
    /\ pc = "validate_date"
    /\ date_error' = validate_date(date, today)
    /\ pc' = "validate_date_done"
    /\ UNCHANGED <<today, city, country, date, geo_response, lat, lon, forecast1,
                   forecast2, forecast, forecast_label, icon_label, notice, raised,
                   calls, response_a, response_b, result_a, result_b,
                   precipitation, icon_path>>

NextDate == ValidateDate

SpecDate == InitDate /\ [][NextDate]_vars

(***************************************************************************)
(* calculate_forecast on its own: every pair of forecasts (None, or three  *)
(* fields each None or a value of MergeVals).                              *)
(***************************************************************************)
MergeVals == {2 * k : k \in -1..MaxMergeVal}
OptVals(vals) == {None} \cup {Some(v) : v \in vals}
OptForecasts(vals) ==
    {None} \cup {Some(Forecast(mx, mn, pr)) :
                    mx \in OptVals(vals), mn \in OptVals(vals), pr \in OptVals(vals)}

InitMerge ==
    /\ pc = "calculate_forecast"
    /\ forecast1 \in OptForecasts(MergeVals)
    /\ forecast2 \in OptForecasts(MergeVals)
    /\ forecast = None
    /\ today \in {Date(2028, 2, 28)}
    /\ city = "" /\ country = "" /\ date = BlankText /\ date_error = "None"
    /\ geo_response = NoGeoResponse /\ lat = None /\ lon = None
    /\ forecast_label = EmptyLabel /\ icon_label = NoIcon
    /\ notice = "None" /\ raised = "None" /\ calls = <<>>
    /\ ClientIdle /\ IconIdle

CalculateForecast ==
    /\ pc = "calculate_forecast"
    /\ forecast' = Some(calculate_forecast(forecast1, forecast2))
    /\ pc' = "calculate_forecast_done"
    /\ UNCHANGED <<today, city, country, date, date_error, geo_response, lat, lon,
                   forecast1, forecast2, forecast_label, icon_label, notice, raised,
                   calls, response_a, response_b, result_a, result_b,
                   precipitation, icon_path>>

NextMerge == CalculateForecast

SpecMerge == InitMerge /\ [][NextMerge]_vars

(***************************************************************************)
(* get_weather_icon on its own.                                            *)
(***************************************************************************)
InitIcon ==
    /\ pc = "get_weather_icon"
    /\ precipitation \in OptVals((0 - MaxPrecip)..MaxPrecip)
    /\ icon_path = Returned("")
    /\ today \in {Date(2028, 2, 28)}
    /\ HandlerIdle /\ ClientIdle

GetWeatherIcon ==
    /\ pc = "get_weather_icon"
    /\ icon_path' = get_weather_icon(precipitation)
    /\ pc' = "get_weather_icon_done"
    /\ UNCHANGED <<today, city, country, date, date_error, geo_response, lat, lon,
                   forecast1, forecast2, forecast, forecast_label, icon_label,
                   notice, raised, calls, response_a, response_b, result_a,
                   result_b, precipitation>>

NextIcon == GetWeatherIcon

SpecIcon == InitIcon /\ [][NextIcon]_vars

(***************************************************************************)
(* The two forecast clients on their own, each on every response.          *)
(***************************************************************************)
InitClients ==
    /\ pc = "get_weather_open_meteo"
    /\ response_a \in ResponsesA
    /\ response_b \in ResponsesB
    /\ result_a = Returned(None) /\ result_b = Returned(None)
    /\ today \in {Date(2028, 2, 28)}
    /\ HandlerIdle /\ IconIdle

ClientOpenMeteo ==
    /\ pc = "get_weather_open_meteo"
    /\ result_a' \in get_weather_open_meteo(response_a)
    /\ pc' = "get_weather_openweathermap"
    /\ UNCHANGED <<today, city, country, date, date_error, geo_response, lat, lon,
                   forecast1, forecast2, forecast, forecast_label, icon_label,
                   notice, raised, calls, response_a, response_b, result_b,
                   precipitation, icon_path>>

ClientOpenWeatherMap ==
    /\ pc = "get_weather_openweathermap"
    /\ result_b' \in get_weather_openweathermap(response_b)
    /\ pc' = "clients_done"
    /\ UNCHANGED <<today, city, country, date, date_error, geo_response, lat, lon,
                   forecast1, forecast2, forecast, forecast_label, icon_label,
                   notice, raised, calls, response_a, response_b, result_a,
                   precipitation, icon_path>>

NextClients ==
    \/ ClientOpenMeteo
    \/ ClientOpenWeatherMap

SpecClients == InitClients /\ [][NextClients]_vars

(***************************************************************************)
(* Properties.                                                             *)
(***************************************************************************)
FieldNames == {"max_temp", "min_temp", "precipitation"}

RequestFailed(resp) == resp.kind = "RequestException"

\* source A's response is JSON but lacks one of the three first array items
LacksFieldsA(resp) ==
    /\ resp.kind = "JSON"
    /\ \/ resp.daily = None
       \/ /\ resp.daily # None
          /\ \/ resp.daily[1].temperature_2m_max.k # "num"
             \/ resp.daily[1].temperature_2m_min.k # "num"
             \/ resp.daily[1].precipitation_sum.k # "num"

\* source B's response is JSON but lacks "current" or its "temp"
LacksFieldsB(resp) ==
    /\ resp.kind = "JSON"
    /\ (~resp.current.has \/ resp.current.temp = None)

\* C1: each forecast client returns None whenever the request fails or the
\* response lacks the expected fields, never a record with absent or
\* defaulted fields, and never raises.  (A body that is no JSON is left out
\* of the statement: whether the client raises there depends on the requests
\* version.)
C1_ClientsReturnNoneOnFailure ==
    /\ response_a.kind # "NotJSON" => result_a.raised = "None"
    /\ response_b.kind # "NotJSON" => result_b.raised = "None"
    /\ (pc # "get_weather_open_meteo"
        /\ (RequestFailed(response_a) \/ LacksFieldsA(response_a)))
       => result_a.value = None
    /\ (pc = "clients_done"
        /\ (RequestFailed(response_b) \/ LacksFieldsB(response_b)))
       => result_b.value = None

\* the geocoding request failed, or its response has no results
LookupFailed(resp) ==
    \/ resp.kind = "RequestException"
    \/ resp.kind = "JSON" /\ resp.results \in {"absent", "empty"}

\* C2: get_coordinates returns (None, None) when the response has no results
\* and when the request fails, and never raises: every lookup failure ends
\* with the "Location Error" notice and without a call of a forecast client.
C2_LookupFailureIsReported ==
    (pc = "idle" /\ LookupFailed(geo_response))
    => /\ raised = "None"
       /\ lat = None /\ lon = None
       /\ notice = "Location Error"
       /\ calls = <<"validate_date", "validate_phone_country_code",
                    "get_coordinates">>

\* the same day one year later (28 February for 29 February)
PlusOneYear(t) ==
    IF IsValidDate(t.year + 1, t.month, t.day)
    THEN Date(t.year + 1, t.month, t.day)
    ELSE Date(t.year + 1, t.month, t.day - 1)

\* C3: for every today and every text that parses as a calendar date d,
\* validate_date reports PastDate if d < today, TooFarFuture if
\* d > today + 1 year and succeeds otherwise; InvalidFormat is reported only
\* for text that does not parse.
C3_ValidateDateRanges ==
    pc = "validate_date_done" =>
        LET parsed == strptime(date) IN
        IF parsed.raised # "None" THEN date_error = "InvalidFormat"
        ELSE IF DateLess(parsed.value[1], today) THEN date_error = "PastDate"
        ELSE IF DateLess(PlusOneYear(today), parsed.value[1])
             THEN date_error = "TooFarFuture"
             ELSE date_error = "None"

\* C4: for two present forecasts, each field of the result is the arithmetic
\* mean when present on both sides and the present value when present on
\* exactly one side.
C4_FieldwiseMean ==
    (pc = "calculate_forecast_done" /\ forecast1 # None /\ forecast2 # None)
    => \A n \in FieldNames :
        LET a == forecast1[1][n]
            b == forecast2[1][n]
            r == forecast[1][n]
        IN  /\ (a # None /\ b # None) => (r # None /\ 2 * r[1] = a[1] + b[1])
            /\ (a # None /\ b = None) => r = a
            /\ (a = None /\ b # None) => r = b

C4_Witness ==
    /\ pc = "calculate_forecast_done"
    /\ forecast1 = Some(Forecast(Some(2), None, Some(0)))
    /\ forecast2 = Some(Forecast(Some(4), Some(2), Some(4)))
    /\ forecast = Some(Forecast(Some(3), Some(2), Some(2)))

\* C5: calculate_forecast(F, None) = F and calculate_forecast(None, F) = F
\* with every field unchanged, and calculate_forecast(None, None) is the
\* zero-filled forecast.
C5_OneSidedMerge ==
    pc = "calculate_forecast_done" =>
        /\ (forecast1 # None /\ forecast2 = None) => forecast = forecast1
        /\ (forecast1 = None /\ forecast2 # None) => forecast = forecast2
        /\ (forecast1 = None /\ forecast2 = None)
           => forecast = <<[max_temp |-> <<0>>, min_temp |-> <<0>>,
                            precipitation |-> <<0>>]>>

C5_Witness ==
    /\ pc = "calculate_forecast_done"
    /\ forecast1 = None
    /\ forecast2 = Some(Forecast(Some(2), None, Some(0)))
    /\ forecast = Some(Forecast(Some(2), None, Some(0)))

StepOrder ==
    <<"validate_date", "validate_phone_country_code", "get_coordinates",
      "get_weather_open_meteo", "get_weather_openweathermap", "calculate_forecast">>

IsPrefix(p, q) == Len(p) <= Len(q) /\ \A i \in 1..Len(p) : p[i] = q[i]

\* C6: within one submission the steps occur in a fixed order, each gated on
\* the previous one: the geocoder only after the non-blank check,
\* validate_date and validate_phone_country_code passed; source A only after
\* the geocoder returned coordinates; source B only after source A returned;
\* the merger only after both returned.  A failed check makes no network
\* request, and no step runs twice.
C6_StepsInOrder ==
    /\ IsPrefix(calls, StepOrder)
    /\ pc = "get_coordinates" => Len(calls) = 2
    /\ pc = "get_weather_open_meteo" => Len(calls) = 3
    /\ pc = "get_weather_openweathermap" => Len(calls) = 4
    /\ pc = "calculate_forecast" => Len(calls) = 5
    /\ pc # "idle" => (raised = "None" /\ notice = "None")
    /\ (Len(calls) >= 3 \/ pc = "get_coordinates")
       => /\ city # "" /\ country # "" /\ date.kind # "blank"
          /\ date_error = "None" /\ validate_date(date, today) = "None"
          /\ country \in {"1", "91", "44", "86", "7"}
    /\ (Len(calls) >= 4 \/ pc = "get_weather_open_meteo")
       => (lat # None /\ lon # None)
    /\ notice \in {"Input Error", "Date Error", "Country Code Error"}
       => Len(calls) <= 2
    /\ notice = "Location Error" => Len(calls) = 3

C6_Witness ==
    /\ pc = "idle"
    /\ calls = StepOrder
    /\ raised = "None"
    /\ forecast_label.kind = "forecast"

\* both sources returned the same forecast, all three fields present, and
\* the handler ran to its end
SameCompleteForecasts ==
    /\ pc = "idle"
    /\ Len(calls) = 6
    /\ forecast1 # None
    /\ forecast1 = forecast2
    /\ \A n \in FieldNames : forecast1[1][n] # None

AllZero(f) == \A n \in FieldNames : f[n] = Some(0)

ShowsWithClearIcon(f) ==
    /\ forecast_label.kind = "forecast"
    /\ forecast_label.shown # None
    /\ \A n \in FieldNames : forecast_label.shown[1][n] = f[n]
    /\ f.precipitation = Some(0) => icon_label = "sun.png"

\* C7 as stated: when both sources return the same forecast F with all three
\* fields present, the displayed merged forecast equals F field for field,
\* and with F.precipitation = 0 the icon is the sun icon.
C7_IdenticalSourcesShown ==
    SameCompleteForecasts => ShowsWithClearIcon(forecast1[1])

\* C7 as amended: the above for every F whose fields are not all 0; with all
\* three fields 0 "No forecast available." is shown and the icon is cleared.
C7_IdenticalSourcesShownUnlessZero ==
    SameCompleteForecasts =>
        IF AllZero(forecast1[1])
        THEN forecast_label.kind = "none" /\ icon_label = ""
        ELSE ShowsWithClearIcon(forecast1[1])

C7_Witness ==
    /\ SameCompleteForecasts
    /\ forecast1 = Some(Forecast(Some(2), Some(2), Some(0)))
    /\ forecast_label.shown = forecast1
    /\ forecast_label.kind = "forecast"
    /\ icon_label = "sun.png"

\* C8: for every non-negative precipitation p the icon is: sun for p = 0,
\* cloudy for 0 < p <= 2, rain for 2 < p <= 10, snow for p > 10.
C8_IconThresholds ==
    (pc = "get_weather_icon_done" /\ precipitation # None /\ precipitation[1] >= 0)
    => LET p == precipitation[1] IN
       /\ icon_path.raised = "None"
       /\ p = 0 => icon_path.value = "sun.png"
       /\ (0 < p /\ p <= 2) => icon_path.value = "cloudy.png"
       /\ (2 < p /\ p <= 10) => icon_path.value = "rain.png"
       /\ p > 10 => icon_path.value = "snow.png"

C8_Witness ==
    /\ pc = "get_weather_icon_done"
    /\ precipitation = Some(10)
    /\ icon_path = Returned("rain.png")

\* C9: every submission that passes validation and geocoding ends either with
\* "No forecast available." and the icon cleared, or with a forecast rendered
\* whose three fields are numbers; no exception ends the handler.  (A forecast
\* body that is no JSON is left out, as for C1.)
C9_EndsInNoForecastOrNumbers ==
    (pc = "idle" /\ lat # None /\ lon # None /\ raised # "JSONDecodeError")
    => /\ raised = "None"
       /\ \/ forecast_label.kind = "none" /\ icon_label = ""
          \/ /\ forecast_label.kind = "forecast"
             /\ \A n \in FieldNames : forecast_label.shown[1][n] # None

\* the panel and the icon are what this submission's merged forecast gives
ShowsOutcome ==
    /\ raised = "None"
    /\ forecast # None
    /\ IF \A n \in FieldNames : NoneOrZero(forecast[1][n])
       THEN forecast_label.kind = "none" /\ icon_label = ""
       ELSE /\ forecast_label = ForecastLabel(city, date, forecast[1])
            /\ icon_label # ""

\* C10: a rejected submission leaves the panel and the icon unchanged, and a
\* submission that passed validation and geocoding leaves its outcome in
\* the panel.  (A forecast body that is no JSON is left out, as for C1.)
C10_PanelShowsLastPassedSubmission ==
    [][(pc' = "idle" /\ raised' # "JSONDecodeError") =>
        IF lat' = None \/ lon' = None
        THEN UNCHANGED <<forecast_label, icon_label>>
        ELSE ShowsOutcome']_vars

====
